---- MODULE Spec2Model ----
(***************************************************************************)
(* Model of the risk-scoring core of the weather dashboard (src/app.py):   *)
(* CyclonePredictor.assess_cyclone_risk and the data it is called on.      *)
(*                                                                         *)
(* Python evaluates the risk expressions in IEEE-754 binary64 ("float").   *)
(* Rounding decides which bin a value near a bin boundary falls in (wind 0,*)
(* pressure 963, humidity 50, temperature 46 sums to 0.8 in the reals and  *)
(* to 0.7999999999999999 as floats), so the arithmetic is modelled as it is*)
(* computed: every float is a sign, a 53-bit mantissa and an exponent, and *)
(* every operation rounds to nearest, ties to even.  Mantissas do not fit  *)
(* a machine integer of the checker, so they are kept as little-endian     *)
(* sequences of 15-bit limbs.                                              *)
(***************************************************************************)
EXTENDS Integers, Sequences, FiniteSets, TLC

VARIABLES
    weather_data,          \* the argument of the latest call (module global, line 290)
    risk_assessment,       \* what the latest call returned (module global, line 291)
    combined_risk,         \* the local combined_risk of the latest call
    prev_weather_data,     \* argument and result of the call before it
    prev_risk_assessment,
    passed,                \* the dict as fetched at line 332, before the call
    raised,                \* the exception the latest call ended with
    model_weights,         \* cyclone_predictor.model_weights
    pc,                    \* where the run of the script stands
    runs,                  \* the runs of the script that have ended
    session_state,         \* st.session_state
    ensemble_forecast,     \* module global, line 292
    reads,                 \* the subscript reads of risk_assessment made in this run
    escaped,               \* the exception that ended this run
    provider,              \* what WeatherAPI answered in this run
    gemini,                \* what the text-generation provider answered
    analysis,              \* what _query_gemini returned
    sent,                  \* the prompts sent to the text-generation provider in this run
    shown,                 \* the messages put on the page in this run
    alert,                 \* the alert boxes tab1 has drawn in this run
    widgets,               \* the widget values the run has read
    caller_pc,             \* per caller: where its call of assess_cyclone_risk stands
    caller_arg,            \* per caller: the weather_data it passed
    caller_result,         \* per caller: what its latest call returned
    frames                 \* the variables of the calls in progress, by slot

scriptVars == <<pc, runs, session_state, ensemble_forecast, reads, escaped,
                provider, gemini, analysis, sent, shown, alert, widgets>>

callVars == <<weather_data, risk_assessment, combined_risk,
              prev_weather_data, prev_risk_assessment,
              passed, raised, model_weights>>

(***************************************************************************)
(* Natural numbers of arbitrary size: little-endian sequences of limbs in  *)
(* 0..LimbBase-1, without leading (last) zero limbs; zero is <<>>.         *)
(***************************************************************************)
LimbBits == 15
LimbBase == 32768

RECURSIVE Pow2(_)
Pow2(n) == IF n = 0 THEN 1 ELSE 2 * Pow2(n - 1)

RECURSIVE NatNorm(_)
NatNorm(a) ==
    IF a = <<>> THEN <<>>
    ELSE IF a[Len(a)] = 0 THEN NatNorm(SubSeq(a, 1, Len(a) - 1))
    ELSE a

RECURSIVE NatFromInt(_)
NatFromInt(n) ==
    IF n = 0 THEN <<>>
    ELSE <<n % LimbBase>> \o NatFromInt(n \div LimbBase)

RECURSIVE NatAddC(_, _, _)
NatAddC(a, b, carry) ==
    IF a = <<>> /\ b = <<>> THEN (IF carry = 0 THEN <<>> ELSE <<carry>>)
    ELSE LET x == IF a = <<>> THEN 0 ELSE Head(a)
             y == IF b = <<>> THEN 0 ELSE Head(b)
             s == x + y + carry
         IN  <<s % LimbBase>> \o
             NatAddC(IF a = <<>> THEN <<>> ELSE Tail(a),
                     IF b = <<>> THEN <<>> ELSE Tail(b),
                     s \div LimbBase)

NatAdd(a, b) == NatAddC(a, b, 0)

\* a - b for a >= b
RECURSIVE NatSubB(_, _, _)
NatSubB(a, b, borrow) ==
    IF a = <<>> THEN <<>>
    ELSE LET y == IF b = <<>> THEN 0 ELSE Head(b)
             d == Head(a) - y - borrow
         IN  <<IF d < 0 THEN d + LimbBase ELSE d>> \o
             NatSubB(Tail(a), IF b = <<>> THEN <<>> ELSE Tail(b),
                     IF d < 0 THEN 1 ELSE 0)

NatSub(a, b) == NatNorm(NatSubB(a, b, 0))

\* -1, 0 or 1 as a < b, a = b or a > b (both without leading zero limbs)
RECURSIVE NatCmpFrom(_, _, _)
NatCmpFrom(a, b, i) ==
    IF i = 0 THEN 0
    ELSE IF a[i] < b[i] THEN -1
    ELSE IF a[i] > b[i] THEN 1
    ELSE NatCmpFrom(a, b, i - 1)

NatCmp(a, b) ==
    IF Len(a) < Len(b) THEN -1
    ELSE IF Len(a) > Len(b) THEN 1
    ELSE NatCmpFrom(a, b, Len(a))

\* a * k + carry for a single limb k
RECURSIVE NatMulSmallC(_, _, _)
NatMulSmallC(a, k, carry) ==
    IF a = <<>> THEN (IF carry = 0 THEN <<>> ELSE <<carry>>)
    ELSE LET p == Head(a) * k + carry
         IN  <<p % LimbBase>> \o NatMulSmallC(Tail(a), k, p \div LimbBase)

NatMulSmall(a, k) == NatNorm(NatMulSmallC(a, k, 0))

RECURSIVE NatMul(_, _)
NatMul(a, b) ==
    IF b = <<>> \/ a = <<>> THEN <<>>
    ELSE NatAdd(NatMulSmall(a, Head(b)),
                LET r == NatMul(a, Tail(b))
                IN  IF r = <<>> THEN <<>> ELSE <<0>> \o r)

\* quotient and remainder of a by a single limb d > 0, from the top limb down
RECURSIVE NatDivSmallFrom(_, _, _, _)
NatDivSmallFrom(a, d, i, rem) ==
    IF i = 0 THEN [q |-> <<>>, r |-> rem]
    ELSE LET cur  == rem * LimbBase + a[i]
             rest == NatDivSmallFrom(a, d, i - 1, cur % d)
         IN  [q |-> rest.q \o <<cur \div d>>, r |-> rest.r]

NatDivSmall(a, d) ==
    LET res == NatDivSmallFrom(a, d, Len(a), 0)
    IN  [q |-> NatNorm(res.q), r |-> res.r]

RECURSIVE Zeros(_)
Zeros(n) == IF n = 0 THEN <<>> ELSE <<0>> \o Zeros(n - 1)

\* a * 2^n
NatShl(a, n) ==
    IF a = <<>> THEN <<>>
    ELSE Zeros(n \div LimbBits) \o NatMulSmall(a, Pow2(n % LimbBits))

\* whether one of the limbs a[1..n] is not zero
NatLowNonZero(a, n) == \E i \in 1..Len(a) : i <= n /\ a[i] # 0

\* floor(a / 2^n), and whether a nonzero bit was shifted out
NatShrLimbs(dv, lost) == [q |-> dv.q, sticky |-> lost \/ dv.r # 0]

NatShr(a, n) ==
    NatShrLimbs(NatDivSmall(IF n \div LimbBits >= Len(a) THEN <<>>
                            ELSE SubSeq(a, n \div LimbBits + 1, Len(a)),
                            Pow2(n % LimbBits)),
                NatLowNonZero(a, n \div LimbBits))

\* floor(a / 2)
NatHalf(a) == NatDivSmall(a, 2).q

RECURSIVE BitLen(_)
BitLen(n) == IF n = 0 THEN 0 ELSE 1 + BitLen(n \div 2)

\* number of bits of a
NatBits(a) ==
    IF a = <<>> THEN 0 ELSE LimbBits * (Len(a) - 1) + BitLen(a[Len(a)])

NatIsOdd(a) == a # <<>> /\ a[1] % 2 = 1

(***************************************************************************)
(* Python floats (IEEE-754 binary64).  A float is (-1)^neg * man * 2^exp   *)
(* with man of exactly MantBits bits, or zero (man = <<>>, exp = 0).  The  *)
(* values of the risk formula stay far from the subnormal and overflow     *)
(* ranges and no NaN or -0.0 arises from integer readings, so those are    *)
(* not represented.                                                        *)
(***************************************************************************)
MantBits == 53

FZero == [neg |-> FALSE, man |-> <<>>, exp |-> 0]

\* The float nearest to (-1)^neg * (M + d) * 2^E, where 0 <= d < 1 and
\* sticky says d > 0 (then M has more than MantBits + 1 bits): round to
\* nearest, ties to even.

\* q has MantBits bits, or MantBits + 1 after a carry out of the rounding
FPack(neg, q, e) ==
    IF NatBits(q) > MantBits
    THEN [neg |-> neg, man |-> NatHalf(q), exp |-> e + 1]
    ELSE [neg |-> neg, man |-> q, exp |-> e]

\* q1 holds the MantBits kept bits and the guard bit below them, h is q1
\* without the guard bit, rest says a nonzero bit lies below the guard bit
FRoundGuard(neg, q1, h, rest, e) ==
    FPack(neg,
          IF NatIsOdd(q1) /\ (rest \/ NatIsOdd(h)) THEN NatAdd(h, <<1>>) ELSE h,
          e)

FRoundShifted(neg, s1, sticky, e) ==
    FRoundGuard(neg, s1.q, NatHalf(s1.q), s1.sticky \/ sticky, e)

\* n is the number of bits of M
FRoundBits(neg, M, E, sticky, n) ==
    IF n <= MantBits
    THEN [neg |-> neg, man |-> NatShl(M, MantBits - n), exp |-> E - (MantBits - n)]
    ELSE FRoundShifted(neg, NatShr(M, n - MantBits - 1), sticky, E + n - MantBits)

FRound(neg, M, E, sticky) ==
    IF M = <<>> THEN FZero ELSE FRoundBits(neg, M, E, sticky, NatBits(M))

\* float(n) of a Python int
FFromInt(n) == FRound(n < 0, NatFromInt(IF n < 0 THEN -n ELSE n), 0, FALSE)

\* a * b
FMul(a, b) ==
    IF a.man = <<>> \/ b.man = <<>> THEN FZero
    ELSE FRound(a.neg # b.neg, NatMul(a.man, b.man), a.exp + b.exp, FALSE)

\* a + b: the mantissas A and B are aligned to the exponent e, c compares them
FAddAligned(na, A, nb, B, e, c) ==
    FRound(IF na = nb \/ c >= 0 THEN na ELSE nb,
           IF na = nb THEN NatAdd(A, B)
           ELSE IF c >= 0 THEN NatSub(A, B) ELSE NatSub(B, A),
           e, FALSE)

FAddAt(a, b, e, A, B) == FAddAligned(a.neg, A, b.neg, B, e, NatCmp(A, B))

FAddTo(a, b, e) ==
    FAddAt(a, b, e, NatShl(a.man, a.exp - e), NatShl(b.man, b.exp - e))

FAdd(a, b) ==
    IF a.man = <<>> THEN b
    ELSE IF b.man = <<>> THEN a
    ELSE FAddTo(a, b, IF a.exp < b.exp THEN a.exp ELSE b.exp)

\* a / d for an integer literal 0 < d < LimbBase (Python's true division)
DivGuardBits == 30
FDivRounded(a, dv) == FRound(a.neg, dv.q, a.exp - DivGuardBits, dv.r # 0)
FDivInt(a, d) ==
    IF a.man = <<>> THEN FZero
    ELSE FDivRounded(a, NatDivSmall(NatShl(a.man, DivGuardBits), d))

\* -1, 0 or 1 as a < b, a = b or a > b
FSign(a) == IF a.man = <<>> THEN 0 ELSE IF a.neg THEN -1 ELSE 1
FMagCmp(a, b) ==
    IF a.exp < b.exp THEN -1
    ELSE IF a.exp > b.exp THEN 1
    ELSE NatCmp(a.man, b.man)
FCmp(a, b) ==
    IF FSign(a) # FSign(b) THEN (IF FSign(a) < FSign(b) THEN -1 ELSE 1)
    ELSE IF FSign(a) = 0 THEN 0
    ELSE IF FSign(a) > 0 THEN FMagCmp(a, b)
    ELSE FMagCmp(b, a)

FLt(a, b) == FCmp(a, b) < 0
FLe(a, b) == FCmp(a, b) <= 0

\* Python's min(a, b) and max(a, b): the first argument unless the second
\* is strictly smaller (larger)
FMin(a, b) == IF FLt(b, a) THEN b ELSE a
FMax(a, b) == IF FLt(a, b) THEN b ELSE a

\* The float literal n/10 (0.3, 0.2, 1.0, ...): the float nearest to the
\* decimal, which is the correctly rounded quotient n / 10.
FTenths(n) == FDivInt(FFromInt(n), 10)

\* the float literals of the risk formula
F0_2 == FTenths(2)
F0_3 == FTenths(3)
F0_4 == FTenths(4)
F0_6 == FTenths(6)
F0_8 == FTenths(8)
F0_7 == FTenths(7)
F1_0 == FTenths(10)

(***************************************************************************)
(* Python dicts are functions on their key sets.                           *)
(***************************************************************************)
EmptyDict == [k \in {} |-> 0]

\* d.get(k, default)
Get(d, k, default) == IF k \in DOMAIN d THEN d[k] ELSE default

(***************************************************************************)
(* CyclonePredictor.assess_cyclone_risk                                    *)
(***************************************************************************)
\* current = weather_data.get('weatherapi', {}).get('current', {})
CurrentOf(data) ==
    Get(Get(data, "weatherapi", EmptyDict), "current", EmptyDict)

\* wind_speed = current.get('wind_kph', 0) and the three other readings
WindSpeed(current) == Get(current, "wind_kph", 0)

\* pressure read with another default
PressureDefault1000(current) == Get(current, "pressure_mb", 1000)

Pressure(current)  == Get(current, "pressure_mb", 1013)
Humidity(current)  == Get(current, "humidity", 50)
Temp(current)      == Get(current, "temp_c", 25)


\* wind_risk with the quotient taken of the distance from 120
WindRiskInverted(current) ==
    FMin(FDivInt(FFromInt(120 - WindSpeed(current)), 120), F1_0)

\* wind_risk without the min(..., 1.0)
WindRiskUnclamped(current) == FDivInt(FFromInt(WindSpeed(current)), 120)

\* wind_risk = min(wind_speed / 120, 1.0)
WindRisk(current) == FMin(FDivInt(FFromInt(WindSpeed(current)), 120), F1_0)


\* pressure_risk clamped to 1.0 like wind_risk
PressureRiskClamped(current) ==
    FMin(FMax(FZero, FDivInt(FFromInt(1013 - Pressure(current)), 50)), F1_0)

\* pressure_risk without the max(0, ...)
PressureRiskUnfloored(current) == FDivInt(FFromInt(1013 - Pressure(current)), 50)

\* pressure_risk = max(0, (1013 - pressure) / 50)
PressureRisk(current) ==
    FMax(FZero, FDivInt(FFromInt(1013 - Pressure(current)), 50))

\* thermal_risk = max(0, (temp - 26) / 10) if temp > 26 else 0
ThermalRisk(current) ==
    IF Temp(current) > 26
    THEN FMax(FZero, FDivInt(FFromInt(Temp(current) - 26), 10))
    ELSE FZero

\* moisture_risk taken as the percentage itself
MoistureRiskUndivided(current) == FFromInt(Humidity(current))

\* moisture_risk = humidity / 100
MoistureRisk(current) == FDivInt(FFromInt(Humidity(current)), 100)

\* wind_risk * 0.3 + pressure_risk * 0.3 + thermal_risk * 0.2 + moisture_risk * 0.2,
\* summed left to right
WeightedSum(wind, pressure, thermal, moisture) ==
    FAdd(FAdd(FAdd(FMul(wind, F0_3), FMul(pressure, F0_3)),
              FMul(thermal, F0_2)),
         FMul(moisture, F0_2))

\* risk_levels, in the dict's insertion order
risk_levels ==
    << [low |-> FZero, high |-> F0_2, level |-> "Low",       color |-> "#2ecc71"],
       [low |-> F0_2,  high |-> F0_4, level |-> "Moderate",  color |-> "#f39c12"],
       [low |-> F0_4,  high |-> F0_6, level |-> "High",      color |-> "#e74c3c"],
       [low |-> F0_6,  high |-> F0_8, level |-> "Very High", color |-> "#8e44ad"],
       [low |-> F0_8,  high |-> F1_0, level |-> "Extreme",   color |-> "#2c3e50"] >>


\* low < combined_risk <= high
InBinUpperInclusive(bin, c) == FLt(bin.low, c) /\ FLe(c, bin.high)

\* low <= combined_risk < high
InBin(bin, c) == FLe(bin.low, c) /\ FLt(c, bin.high)


\* the loop with the return after it handing back combined_risk itself
RECURSIVE RiskLoopUncapped(_, _, _)
RiskLoopUncapped(bins, c, factors) ==
    IF bins = <<>>
    THEN [risk_level |-> "Extreme", probability |-> c, color |-> "#2c3e50"]
    ELSE IF FLe(Head(bins).low, c) /\ FLt(c, Head(bins).high)
    THEN [risk_level |-> Head(bins).level,
          probability |-> c,
          color |-> Head(bins).color,
          factors |-> factors]
    ELSE RiskLoopUncapped(Tail(bins), c, factors)

\* the loop over risk_levels.items(), bins being the entries still to
\* come, and the return after it
\* the loop with the return after it carrying the factors too
RECURSIVE RiskLoopFallbackFactors(_, _, _)
RiskLoopFallbackFactors(bins, c, factors) ==
    IF bins = <<>>
    THEN [risk_level |-> "Extreme", probability |-> F1_0, color |-> "#2c3e50",
          factors |-> factors]
    ELSE IF FLe(Head(bins).low, c) /\ FLt(c, Head(bins).high)
    THEN [risk_level |-> Head(bins).level,
          probability |-> c,
          color |-> Head(bins).color,
          factors |-> factors]
    ELSE RiskLoopFallbackFactors(Tail(bins), c, factors)

RECURSIVE RiskLoop(_, _, _)
RiskLoop(bins, c, factors) ==
    IF bins = <<>>
    THEN [risk_level |-> "Extreme", probability |-> F1_0, color |-> "#2c3e50"]
    ELSE IF InBin(Head(bins), c)
    THEN [risk_level |-> Head(bins).level,
          probability |-> c,
          color |-> Head(bins).color,
          factors |-> factors]
    ELSE RiskLoop(Tail(bins), c, factors)

\* the four risk factors of the readings
RiskFactors(current) ==
    [wind     |-> WindRisk(current),
     pressure |-> PressureRisk(current),
     thermal  |-> ThermalRisk(current),
     moisture |-> MoistureRisk(current)]

\* combined_risk
CombinedRisk(factors) ==
    WeightedSum(factors.wind, factors.pressure, factors.thermal, factors.moisture)

\* One execution from the risk factors on: the value returned and the local
\* combined_risk it was decided by
ExecuteCombined(factors, c) ==
    [returned |-> RiskLoop(risk_levels, c, factors), combined |-> c,
     raised |-> "none"]

ExecuteFactors(factors) == ExecuteCombined(factors, CombinedRisk(factors))

\* d[k], which raises KeyError where k is absent
SubscriptRaises(d, k) == k \notin DOMAIN d

\* d.get(k, default) raises nothing, whether k is present or absent
GetRaises(d, k) == FALSE

\* the lookups of lines 167 to 173; the readings found are numbers, and
\* the arithmetic on numbers divides by non-zero literals only
LookupRaises(data) ==
    \/ GetRaises(data, "weatherapi")
    \/ GetRaises(Get(data, "weatherapi", EmptyDict), "current")
    \/ \E k \in {"wind_kph", "pressure_mb", "humidity", "temp_c"} :
          GetRaises(CurrentOf(data), k)

\* One execution of assess_cyclone_risk; 'if not weather_data' returns
\* before any local is bound
Execute(data) ==
    IF DOMAIN data = {}
    THEN [returned |-> [risk_level |-> "unknown", probability |-> FZero],
          combined |-> "unbound", raised |-> "none"]
    ELSE IF LookupRaises(data)
    THEN [returned |-> EmptyDict, combined |-> "unbound", raised |-> "KeyError"]
    ELSE ExecuteFactors(RiskFactors(CurrentOf(data)))

\* weather_data with every absent reading stored into it
ArgumentWithDefaults(data) ==
    IF DOMAIN data = {} THEN data
    ELSE [weatherapi |-> [current |->
             [wind_kph    |-> WindSpeed(CurrentOf(data)),
              pressure_mb |-> Pressure(CurrentOf(data)),
              humidity    |-> Humidity(CurrentOf(data)),
              temp_c      |-> Temp(CurrentOf(data))]]]

\* weather_data after the call: the function reads it with .get and stores
\* into no dict it was given
ArgumentAfter(data) == data

\* CyclonePredictor.__init__
ModelWeights == [deep_learning |-> F0_4, statistical |-> F0_3, numerical |-> F0_3]

\* self.model_weights after the call: the function has no use of self
WeightsAfter(weights) == weights

assess_cyclone_risk(data) == Execute(data).returned

(***************************************************************************)
(* The calls.  Readings are whole numbers drawn from grids that hold the   *)
(* ends of the valid ranges, the clamp and bin boundaries and values out   *)
(* of range; any of the four may be absent from 'current'.                 *)
(***************************************************************************)
MaxWindSteps     == 2
MaxPressureSteps == 2
MaxHumiditySteps == 2
MaxTempSteps     == 1

Fields == {"wind_kph", "pressure_mb", "humidity", "temp_c"}

WindValues     == {60 * i : i \in -1..MaxWindSteps} \cup {150, 500}
PressureValues == {1013 - 75 * i : i \in 0..MaxPressureSteps} \cup {850, 862, 1100}
HumidityValues == {50 * i : i \in -1..MaxHumiditySteps}
TempValues     == {26 + 10 * i : i \in 0..MaxTempSteps} \cup {-50, 25, 60}

FieldValues(k) ==
    CASE k = "wind_kph"    -> WindValues
      [] k = "pressure_mb" -> PressureValues
      [] k = "humidity"    -> HumidityValues
      [] k = "temp_c"      -> TempValues

\* the 'current' dicts: every subset of the fields, every reading
Currents ==
    { [k \in D |-> CASE k = "wind_kph"    -> w
                     [] k = "pressure_mb" -> p
                     [] k = "humidity"    -> h
                     [] k = "temp_c"      -> t] :
      D \in SUBSET Fields, w \in WindValues, p \in PressureValues,
      h \in HumidityValues, t \in TempValues }

\* what fetch_multi_source_data returns on success: {'weatherapi': json}
Samples == { [weatherapi |-> [current |-> c]] : c \in Currents }

\* the other arguments: {} (no data fetched), a reply without 'current',
\* and a dict without 'weatherapi'
OtherData == { EmptyDict, [weatherapi |-> EmptyDict], [openweather |-> EmptyDict] }

Inputs == Samples \cup OtherData

\* d[k] = v, and del d[k]
Put(d, k, v) == [j \in DOMAIN d \cup {k} |-> IF j = k THEN v ELSE d[j]]
Del(d, k)    == [j \in DOMAIN d \ {k} |-> d[j]]

\* the executions on the inputs, computed once
AssessMemo == [d \in Inputs |-> Execute(d)]

CallInit ==
    /\ weather_data = EmptyDict
    /\ risk_assessment = EmptyDict
    /\ combined_risk = "unbound"
    /\ prev_weather_data = EmptyDict
    /\ prev_risk_assessment = EmptyDict
    /\ passed = EmptyDict
    /\ raised = "not called"
    /\ model_weights = ModelWeights

\* risk_assessment = cyclone_predictor.assess_cyclone_risk(weather_data),
\* run being what the call on d computes
Returned(d, run) ==
    /\ passed' = d
    /\ weather_data' = ArgumentAfter(d)
    /\ model_weights' = WeightsAfter(model_weights)
    /\ risk_assessment' = run.returned
    /\ combined_risk' = run.combined
    /\ raised' = run.raised
    /\ prev_weather_data' = weather_data
    /\ prev_risk_assessment' = risk_assessment

\* a call that answers with what the call before it computed
CallStale(d) ==
    Returned(d, IF raised = "none" /\ DOMAIN d # {} THEN AssessMemo[weather_data]
                ELSE AssessMemo[d])

Call(d) == Returned(d, AssessMemo[d])

callerVars == <<caller_pc, caller_arg, caller_result, frames>>

\* Python's None
PyNone == [is_none |-> TRUE]

\* the text inputs empty, the button not pressed
NoWidgets ==
    [location |-> "", weatherapi_key |-> "", gemini_api_key |-> "",
     button |-> FALSE, custom_query |-> ""]

\* no request made
NoReply == [exc |-> "no request"]

ScriptInit ==
    /\ pc = "idle"
    /\ runs = 0
    /\ session_state = EmptyDict
    /\ ensemble_forecast = EmptyDict
    /\ reads = {}
    /\ escaped = "none"
    /\ provider = NoReply
    /\ gemini = NoReply
    /\ analysis = PyNone
    /\ sent = <<>>
    /\ shown = {}
    /\ alert = {}
    /\ widgets = NoWidgets

\* The sessions: Streamlit runs the script of every session in a thread of
\* its own, and st.cache_resource hands all of them the one CyclonePredictor
MaxCallers == 2

Callers == 1..MaxCallers

CallerInit ==
    /\ caller_pc = [c \in Callers |-> "idle"]
    /\ caller_arg = [c \in Callers |-> EmptyDict]
    /\ caller_result = [c \in Callers |-> EmptyDict]
    /\ frames = EmptyDict

\* Consecutive calls see data that differ in one entry: every input is
\* reached, and so is every pair of inputs that differ in one reading.

\* a reading of the sample has changed, or one that was absent has come
AssessChanged ==
    /\ weather_data \in Samples
    /\ \E k \in Fields : \E v \in FieldValues(k) :
          Call([weatherapi |-> [current |-> Put(CurrentOf(weather_data), k, v)]])
    /\ UNCHANGED <<scriptVars, callerVars>>

\* a reading of the sample has gone
AssessDropped ==
    /\ weather_data \in Samples
    /\ \E k \in DOMAIN CurrentOf(weather_data) :
          Call([weatherapi |-> [current |-> Del(CurrentOf(weather_data), k)]])
    /\ UNCHANGED <<scriptVars, callerVars>>

\* no data was fetched, or the reply has no 'current'
AssessOther ==
    /\ \E d \in OtherData : Call(d)
    /\ UNCHANGED <<scriptVars, callerVars>>

\* after that, a reply that has 'current' again, without readings yet
AssessBare ==
    /\ weather_data \in OtherData
    /\ Call([weatherapi |-> [current |-> EmptyDict]])
    /\ UNCHANGED <<scriptVars, callerVars>>

Init == CallInit /\ ScriptInit /\ CallerInit

Next == AssessChanged \/ AssessDropped \/ AssessOther \/ AssessBare

vars == <<callVars, scriptVars, callerVars>>

Spec == Init /\ [][Next]_vars

(***************************************************************************)
(* The script.  Streamlit runs src/app.py from its first line to its last  *)
(* at every request; st.session_state lasts from run to run, the module    *)
(* globals do not.  An exception that leaves a tab ends the run there.     *)
(***************************************************************************)
MaxRuns == 2

\* what requests.get, raise_for_status and response.json() raise
ProviderExceptions == {"ConnectionError", "Timeout", "HTTPError", "JSONDecodeError"}

\* except ConnectionError
CaughtConnectionOnly(e) == e = "ConnectionError"

\* except Exception as e: the exceptions above are all subclasses of Exception
Caught(e) == e \in ProviderExceptions

\* the JSON bodies WeatherAPI answers with
ScriptBodies ==
    { [current  |-> [wind_kph |-> 0, pressure_mb |-> 1013, humidity |-> 50, temp_c |-> 25],
       location |-> [lat |-> 35, lon |-> 139]],
      [current  |-> [pressure_mb |-> 850],
       location |-> [lat |-> 35, lon |-> 139]],
      [current  |-> [wind_kph |-> 150, temp_c |-> 36]],
      [current  |-> [wind_kph |-> 150]],
      [current  |-> [wind_kph |-> 120, humidity |-> 100, temp_c |-> 36]],
      [current  |-> [pressure_mb |-> 850, humidity |-> 0]],
      EmptyDict }

\* the answers to requests.get: an exception, or a response
WeatherReplies ==
    { [exc |-> e, status |-> 0, json_ok |-> FALSE, body |-> EmptyDict] :
        e \in {"ConnectionError", "Timeout"} }
    \cup { [exc |-> "none", status |-> 401, json_ok |-> TRUE, body |-> EmptyDict],
           [exc |-> "none", status |-> 200, json_ok |-> FALSE, body |-> EmptyDict] }
    \cup { [exc |-> "none", status |-> 200, json_ok |-> TRUE, body |-> b] :
             b \in ScriptBodies }

\* the exception raised inside the try of fetch_multi_source_data:
\* requests.get raises; response.json() raises on a 200 with a bad body
FetchRaises(reply) ==
    IF reply.exc # "none" THEN reply.exc
    ELSE IF reply.status = 200 /\ ~reply.json_ok THEN "JSONDecodeError"
    ELSE "none"

\* WeatherDataProcessor.fetch_multi_source_data: results, the exception
\* that leaves the function, the messages put on the page
fetch_multi_source_data(api_key, reply) ==
    IF api_key = ""
    THEN [results |-> EmptyDict, propagates |-> "none", messages |-> {}]
    ELSE IF FetchRaises(reply) # "none"
    THEN IF Caught(FetchRaises(reply))
         THEN [results |-> EmptyDict, propagates |-> "none",
               messages |-> {"WeatherAPI error"}]
         ELSE [results |-> EmptyDict, propagates |-> FetchRaises(reply),
               messages |-> {}]
    ELSE IF reply.status = 200
    THEN [results |-> [weatherapi |-> reply.body], propagates |-> "none",
          messages |-> {}]
    ELSE [results |-> EmptyDict, propagates |-> "none", messages |-> {}]

\* np.random.normal(base_temp, 2, 50): the mean lands near base_temp
Noise == {-1, 1}

\* WeatherDataProcessor.calculate_ensemble_forecast
calculate_ensemble_forecast(data, noise) ==
    IF DOMAIN data = {} THEN PyNone
    ELSE [mean        |-> Get(CurrentOf(data), "temp_c", 20) + noise,
          std         |-> 2,
          percentiles |-> "percentiles",
          confidence  |-> "confidence"]

\* a str
Str(t) == [str |-> t]

\* the answers of the text-generation provider
GeminiReplies ==
    { [exc |-> "Timeout", status |-> 0, json_ok |-> FALSE, candidates |-> <<>>],
      [exc |-> "none", status |-> 400, json_ok |-> TRUE, candidates |-> <<>>],
      [exc |-> "none", status |-> 200, json_ok |-> FALSE, candidates |-> <<>>],
      [exc |-> "none", status |-> 200, json_ok |-> TRUE, candidates |-> <<>>],
      [exc |-> "none", status |-> 200, json_ok |-> TRUE, candidates |-> <<EmptyDict>>],
      [exc |-> "none", status |-> 200, json_ok |-> TRUE,
       candidates |-> <<[content |-> [parts |-> <<>>]]>>],
      [exc |-> "none", status |-> 200, json_ok |-> TRUE,
       candidates |-> <<[content |-> [parts |-> <<EmptyDict>>]]>>],
      [exc |-> "none", status |-> 200, json_ok |-> TRUE,
       candidates |-> <<[content |-> [parts |-> <<[text |-> "report"]>>]]>>] }

\* the exception raised inside the try of _query_gemini
QueryRaises(reply) ==
    IF reply.exc # "none" THEN reply.exc
    ELSE IF reply.status >= 400 THEN "HTTPError"
    ELSE IF ~reply.json_ok THEN "JSONDecodeError"
    ELSE "none"

\* parts of the first candidate
FirstParts(candidates) ==
    Get(Get(candidates[1], "content", EmptyDict), "parts", <<>>)

\* the value returned from inside the try
QueryText(candidates) ==
    IF candidates # <<>> /\ FirstParts(candidates) # <<>>
    THEN Str(Get(FirstParts(candidates)[1], "text", ""))
    ELSE PyNone

\* AIInsightEngine._query_gemini
query_gemini(reply) ==
    IF QueryRaises(reply) # "none"
    THEN IF Caught(QueryRaises(reply))
         THEN [value |-> PyNone, propagates |-> "none",
               messages |-> {"AI Analysis Error"}]
         ELSE [value |-> PyNone, propagates |-> QueryRaises(reply),
               messages |-> {}]
    ELSE [value |-> QueryText(reply.candidates), propagates |-> "none",
          messages |-> {}]

\* the tabs drawn without looking at weather_data
TabShownAlways(data) == TRUE

\* 'if weather_data:' at lines 336, 403, 601 and 691
TabShown(data) == DOMAIN data # {}

\* d[k] raises KeyError where k is absent
KeyError(d, k) == k \notin DOMAIN d

\* the subscript reads of risk_assessment, by line and key
Tab1Reads == { <<341, "probability">>, <<396, "risk_level">>, <<397, "probability">> }
Tab2Reads == { <<443, "probability">>, <<485, "probability">> }
Tab4Reads == { <<617, "risk_level">>, <<619, "probability">> }

ReadsRaise(d, sites) == \E site \in sites : KeyError(d, site[2])

\* the globals of the run before kept
GlobalsKept ==
    /\ reads' = {}
    /\ UNCHANGED <<weather_data, risk_assessment, ensemble_forecast,
                   combined_risk, prev_weather_data, prev_risk_assessment,
                   passed, raised, model_weights>>

\* lines 290 to 292 with nothing fetched after them
GlobalsReset ==
    /\ weather_data' = EmptyDict
    /\ risk_assessment' = EmptyDict
    /\ ensemble_forecast' = EmptyDict
    /\ reads' = {}
    /\ UNCHANGED <<combined_risk, prev_weather_data, prev_risk_assessment,
                   passed, raised, model_weights>>

\* both alerts at their thresholds too
AlertInclusive(assessment) ==
    IF FLe(F0_7, assessment.probability) THEN {"critical"}
    ELSE IF FLe(F0_4, assessment.probability) THEN {"warning"}
    ELSE {}

\* lines 341 to 357: if risk_assessment['probability'] > 0.7 ... elif ... > 0.4
Alert(assessment) ==
    IF FLt(F0_7, assessment.probability) THEN {"critical"}
    ELSE IF FLt(F0_4, assessment.probability) THEN {"warning"}
    ELSE {}

\* the reads of the alert tests and of the box drawn
AlertReads(boxes) ==
    IF "critical" \in boxes
    THEN { <<345, "risk_level">>, <<346, "probability">> }
    ELSE IF "warning" \in boxes
    THEN { <<350, "probability">>, <<354, "risk_level">>, <<355, "probability">> }
    ELSE { <<350, "probability">> }

\* 'if location and weatherapi_key' is false
Tab1NotFetched ==
    /\ GlobalsReset
    /\ alert' = {}
    /\ provider' = NoReply
    /\ escaped' = "none"
    /\ shown' = {}

\* lines 333 to 397: assess, ensemble forecast, alerts and metrics
Tab1Assessed(f, run, reply, noise) ==
    /\ Returned(f.results, run)
    /\ ensemble_forecast' =
          IF run.raised = "none" THEN calculate_ensemble_forecast(f.results, noise)
          ELSE EmptyDict
    /\ provider' = reply
    /\ shown' = f.messages
    /\ alert' = IF run.raised = "none" /\ TabShown(f.results)
                THEN Alert(run.returned)
                ELSE {}
    /\ reads' = IF run.raised = "none" /\ TabShown(f.results)
                THEN Tab1Reads \cup AlertReads(Alert(run.returned))
                ELSE {}
    /\ escaped' = IF run.raised # "none" THEN run.raised
                  ELSE IF TabShown(f.results) /\ ReadsRaise(run.returned, Tab1Reads)
                  THEN "KeyError"
                  ELSE "none"

\* line 332 and what follows it
Tab1Fetched(f, reply, noise) ==
    IF f.propagates # "none"
    THEN /\ GlobalsReset
         /\ alert' = {}
         /\ provider' = reply
         /\ escaped' = f.propagates
         /\ shown' = f.messages
    ELSE Tab1Assessed(f, Execute(f.results), reply, noise)

Tab1(location, api_key, reply, noise) ==
    IF location # "" /\ api_key # ""
    THEN Tab1Fetched(fetch_multi_source_data(api_key, reply), reply, noise)
    ELSE Tab1NotFetched

\* a run starts: lines 1 to 398
RunTab1 ==
    /\ pc = "idle"
    /\ runs < MaxRuns
    /\ \E location \in {"", "Tokyo"}, api_key \in {"", "key"} :
          \E reply \in WeatherReplies, noise \in Noise :
             /\ Tab1(location, api_key, reply, noise)
             /\ widgets' = [NoWidgets EXCEPT !.location = location,
                                             !.weatherapi_key = api_key]
    /\ pc' = "tab2"
    /\ gemini' = NoReply
    /\ analysis' = PyNone
    /\ sent' = <<>>
    /\ UNCHANGED <<runs, session_state, callerVars>>

\* the reads of a tab, made where the tab is shown and the run still goes on
ReadSites(sites, tab_shown) ==
    IF escaped = "none" /\ tab_shown
    THEN /\ reads' = reads \cup sites
         /\ escaped' = IF ReadsRaise(risk_assessment, sites) THEN "KeyError" ELSE "none"
    ELSE UNCHANGED <<reads, escaped>>

\* lines 400 to 491
RunTab2 ==
    /\ pc = "tab2"
    /\ pc' = "tab4"
    /\ ReadSites(Tab2Reads, TabShown(weather_data))
    /\ UNCHANGED <<callVars, runs, session_state, ensemble_forecast,
                   provider, gemini, analysis, sent, shown, alert, widgets,
                   callerVars>>

\* location_data = weather_data.get('weatherapi', {}).get('location', {})
LocationOf(data) == Get(Get(data, "weatherapi", EmptyDict), "location", EmptyDict)

\* lines 598 to 654: the marker is drawn 'if lat and lon'
RunTab4 ==
    /\ pc = "tab4"
    /\ pc' = "tab5"
    /\ ReadSites(Tab4Reads,
                 /\ TabShown(weather_data)
                 /\ Get(LocationOf(weather_data), "lat", 0) # 0
                 /\ Get(LocationOf(weather_data), "lon", 0) # 0)
    /\ UNCHANGED <<callVars, runs, session_state, ensemble_forecast,
                   provider, gemini, analysis, sent, shown, alert, widgets,
                   callerVars>>

\* 'if analysis:' -- None and '' are both false
Truthy(value) == value # PyNone /\ value # Str("")

\* lines 692 to 715: one request, its answer put on the page
Tab5Queried(q, prompt, reply) ==
    /\ analysis' = q.value
    /\ gemini' = reply
    /\ sent' = Append(sent, prompt)
    /\ escaped' = q.propagates
    /\ shown' = shown \cup q.messages \cup
                  (IF q.propagates # "none" THEN {}
                   ELSE IF Truthy(q.value) THEN {"AI Weather Intelligence Report"}
                   ELSE {"Failed to generate AI analysis"})

\* the values generate_advanced_analysis puts into its context, lines 222 to 239
WeatherContext(data, assessment) ==
    [context |->
        [location    |-> Get(LocationOf(data), "name", "Unknown"),
         temperature |-> Get(CurrentOf(data), "temp_c", "N/A"),
         wind_speed  |-> Get(CurrentOf(data), "wind_kph", "N/A"),
         pressure    |-> Get(CurrentOf(data), "pressure_mb", "N/A"),
         humidity    |-> Get(CurrentOf(data), "humidity", "N/A"),
         risk_level  |-> Get(assessment, "risk_level", "Unknown"),
         probability |-> Get(assessment, "probability", FZero)]]

\* the context sent whatever the custom query says
PromptContextOnly(custom_query, data, assessment) ==
    WeatherContext(data, assessment)

\* lines 693 to 696: the custom query if there is one, else the context
Prompt(custom_query, data, assessment) ==
    IF custom_query # "" THEN Str(custom_query)
    ELSE WeatherContext(data, assessment)

\* lines 656 to 719
Tab5(gemini_api_key, button, custom_query, reply) ==
    IF escaped = "none" /\ gemini_api_key # "" /\ button /\ TabShown(weather_data)
    THEN Tab5Queried(query_gemini(reply),
                     Prompt(custom_query, weather_data, risk_assessment), reply)
    ELSE /\ UNCHANGED <<analysis, gemini, sent, escaped>>
         /\ shown' = IF escaped # "none" THEN shown
                     ELSE IF gemini_api_key = ""
                     THEN shown \cup {"Please enter your Gemini API key"}
                     ELSE IF button
                     THEN shown \cup {"Please fetch weather data first"}
                     ELSE shown

RunTab5 ==
    /\ pc = "tab5"
    /\ pc' = "session"
    /\ \E gemini_api_key \in {"", "key"}, button \in BOOLEAN,
          custom_query \in {"", "question"} :
          \E reply \in GeminiReplies :
             /\ Tab5(gemini_api_key, button, custom_query, reply)
             /\ widgets' = [widgets EXCEPT !.gemini_api_key = gemini_api_key,
                                           !.button = button,
                                           !.custom_query = custom_query]
    /\ UNCHANGED <<callVars, runs, session_state, ensemble_forecast, reads,
                   provider, alert, callerVars>>

\* session state set afresh at every run
SessionInitEveryRun(state) ==
    [session_initialized |-> TRUE, session_id |-> "nexus", request_count |-> 0]

\* lines 1172 to 1175
SessionInit(state) ==
    IF "session_initialized" \notin DOMAIN state
    THEN [session_initialized |-> TRUE, session_id |-> "nexus", request_count |-> 0]
    ELSE state

\* line 1177
CountRequest(state) == [state EXCEPT !.request_count = @ + 1]

\* lines 1172 to 1177, reached by a run that no exception has ended
RunSession ==
    /\ pc = "session"
    /\ pc' = "idle"
    /\ runs' = runs + 1
    /\ session_state' = IF escaped = "none"
                        THEN CountRequest(SessionInit(session_state))
                        ELSE session_state
    /\ UNCHANGED <<callVars, ensemble_forecast, reads, escaped,
                   provider, gemini, analysis, sent, shown, alert, widgets,
                   callerVars>>

ScriptNext == RunTab1 \/ RunTab2 \/ RunTab4 \/ RunTab5 \/ RunSession

ScriptSpec == Init /\ [][ScriptNext]_vars

(***************************************************************************)
(* Concurrent calls.  Each caller executes assess_cyclone_risk line group  *)
(* by line group on the shared predictor; the threads interleave between   *)
(* any two groups.  Every name the function assigns is a local of the      *)
(* call's own frame.                                                       *)
(***************************************************************************)
\* the name as an attribute of self, which all callers share
SlotOnSelf(c, name) == <<0, name>>

\* the name as a local variable of caller c's frame
Slot(c, name) == <<c, name>>

Locals == {"wind_speed", "pressure", "humidity", "temp",
           "wind_risk", "pressure_risk", "thermal_risk", "moisture_risk",
           "combined_risk"}

Load(c, name) == frames[Slot(c, name)]

\* the weather_data the callers pass
CallerSamples ==
    { EmptyDict,
      [weatherapi |-> [current |-> EmptyDict]],
      [weatherapi |-> [current |-> [wind_kph |-> 150]]],
      [weatherapi |-> [current |-> [pressure_mb |-> 850]]],
      [weatherapi |-> [current |-> [wind_kph |-> 120, pressure_mb |-> 1100,
                                    humidity |-> 100, temp_c |-> 36]]] }

CallersUntouched == UNCHANGED <<callVars, scriptVars>>

\* lines 164 to 165: the call starts; on empty data it returns at once
CallerEnter(c) ==
    /\ caller_pc[c] = "idle"
    /\ \E d \in CallerSamples :
          /\ caller_arg' = [caller_arg EXCEPT ![c] = d]
          /\ IF DOMAIN d = {}
             THEN /\ caller_pc' = [caller_pc EXCEPT ![c] = "done"]
                  /\ caller_result' = [caller_result EXCEPT ![c] =
                        [risk_level |-> "unknown", probability |-> FZero]]
             ELSE /\ caller_pc' = [caller_pc EXCEPT ![c] = "readings"]
                  /\ caller_result' = [caller_result EXCEPT ![c] = EmptyDict]
    /\ UNCHANGED frames
    /\ CallersUntouched

\* lines 167 to 173
CallerReadings(c) ==
    /\ caller_pc[c] = "readings"
    /\ frames' =
          Put(Put(Put(Put(frames,
              Slot(c, "wind_speed"), WindSpeed(CurrentOf(caller_arg[c]))),
              Slot(c, "pressure"), Pressure(CurrentOf(caller_arg[c]))),
              Slot(c, "humidity"), Humidity(CurrentOf(caller_arg[c]))),
              Slot(c, "temp"), Temp(CurrentOf(caller_arg[c])))
    /\ caller_pc' = [caller_pc EXCEPT ![c] = "factors"]
    /\ UNCHANGED <<caller_arg, caller_result>>
    /\ CallersUntouched

\* the four readings of caller c as it holds them
HeldReadings(c) ==
    [wind_kph    |-> Load(c, "wind_speed"),
     pressure_mb |-> Load(c, "pressure"),
     humidity    |-> Load(c, "humidity"),
     temp_c      |-> Load(c, "temp")]

StoreFactors(c, factors) ==
    Put(Put(Put(Put(frames,
        Slot(c, "wind_risk"), factors.wind),
        Slot(c, "pressure_risk"), factors.pressure),
        Slot(c, "thermal_risk"), factors.thermal),
        Slot(c, "moisture_risk"), factors.moisture)

\* lines 176 to 179
CallerFactors(c) ==
    /\ caller_pc[c] = "factors"
    /\ frames' = StoreFactors(c, RiskFactors(HeldReadings(c)))
    /\ caller_pc' = [caller_pc EXCEPT ![c] = "combine"]
    /\ UNCHANGED <<caller_arg, caller_result>>
    /\ CallersUntouched

\* the four factors of caller c as it holds them
HeldFactors(c) ==
    [wind     |-> Load(c, "wind_risk"),
     pressure |-> Load(c, "pressure_risk"),
     thermal  |-> Load(c, "thermal_risk"),
     moisture |-> Load(c, "moisture_risk")]

\* lines 181 to 186
CallerCombine(c) ==
    /\ caller_pc[c] = "combine"
    /\ frames' = Put(frames, Slot(c, "combined_risk"), CombinedRisk(HeldFactors(c)))
    /\ caller_pc' = [caller_pc EXCEPT ![c] = "tiers"]
    /\ UNCHANGED <<caller_arg, caller_result>>
    /\ CallersUntouched

\* lines 188 to 210: the call returns and its frame goes
CallerTiers(c) ==
    /\ caller_pc[c] = "tiers"
    /\ caller_result' = [caller_result EXCEPT ![c] =
          RiskLoop(risk_levels, Load(c, "combined_risk"), HeldFactors(c))]
    /\ frames' = [slot \in DOMAIN frames \ {<<c, name>> : name \in Locals} |->
                    frames[slot]]
    /\ caller_pc' = [caller_pc EXCEPT ![c] = "done"]
    /\ UNCHANGED caller_arg
    /\ CallersUntouched

\* the caller has taken the assessment
CallerDone(c) ==
    /\ caller_pc[c] = "done"
    /\ caller_pc' = [caller_pc EXCEPT ![c] = "idle"]
    /\ UNCHANGED <<caller_arg, caller_result, frames>>
    /\ CallersUntouched

ConcurrentNext ==
    \E c \in Callers :
        \/ CallerEnter(c)
        \/ CallerReadings(c)
        \/ CallerFactors(c)
        \/ CallerCombine(c)
        \/ CallerTiers(c)
        \/ CallerDone(c)

ConcurrentSpec == Init /\ [][ConcurrentNext]_vars

(***************************************************************************)
(* Properties of assess_cyclone_risk.                                      *)
(***************************************************************************)
\* a call has returned
Called == DOMAIN risk_assessment # {}

\* the latest call went past 'if not weather_data'
Assessed == Called /\ DOMAIN weather_data # {}

\* the readings the call used, defaults included
Wind(d)   == WindSpeed(CurrentOf(d))
Press(d)  == Pressure(CurrentOf(d))
Humid(d)  == Humidity(CurrentOf(d))
TempOf(d) == Temp(CurrentOf(d))

\* the ranges of the property test
ValidSample(d) ==
    /\ Wind(d) >= 0 /\ Wind(d) <= 500
    /\ Press(d) >= 850 /\ Press(d) <= 1100
    /\ Humid(d) >= 0 /\ Humid(d) <= 100
    /\ TempOf(d) >= -50 /\ TempOf(d) <= 60

\* an ObservationSample of the data model: windSpeedKph >= 0, humidityPercent in [0,100]
ObservationSample(d) == Wind(d) >= 0 /\ Humid(d) >= 0 /\ Humid(d) <= 100

InUnitInterval(f) == FLe(FZero, f) /\ FLe(f, F1_0)

\* the return after the loop: tier and color without 'factors'
ReturnedByFallback == DOMAIN risk_assessment = {"risk_level", "probability", "color"}

\* C1: for every sample in the valid ranges the returned probability lies in [0,1]
C1_ProbabilityInUnitInterval ==
    (Assessed /\ ValidSample(weather_data))
        => InUnitInterval(risk_assessment.probability)

\* a valid sample whose combined risk left the bins, returned as 1.0
C1_Witness ==
    /\ Assessed /\ ValidSample(weather_data)
    /\ ReturnedByFallback
    /\ risk_assessment.probability = F1_0

\* the row of the tier table that holds p: lower bounds inclusive, the last row closed at 1.0
TableRow(p) ==
    IF FLe(FZero, p) /\ FLt(p, F0_2) THEN <<"Low", "#2ecc71">>
    ELSE IF FLe(F0_2, p) /\ FLt(p, F0_4) THEN <<"Moderate", "#f39c12">>
    ELSE IF FLe(F0_4, p) /\ FLt(p, F0_6) THEN <<"High", "#e74c3c">>
    ELSE IF FLe(F0_6, p) /\ FLt(p, F0_8) THEN <<"Very High", "#8e44ad">>
    ELSE IF FLe(F0_8, p) /\ FLe(p, F1_0) THEN <<"Extreme", "#2c3e50">>
    ELSE <<"no row", "no row">>

\* C2: tier and color are those of the table row that holds the returned probability
C2_TierMatchesTable ==
    Assessed =>
        <<risk_assessment.risk_level, risk_assessment.color>>
            = TableRow(risk_assessment.probability)

\* probability exactly 0.2 with tier Moderate
C2_Witness ==
    /\ Assessed
    /\ risk_assessment.probability = F0_2
    /\ risk_assessment.risk_level = "Moderate"

\* C3: the returned probability is the weighted sum of the four factor values returned with it
C3_ProbabilityIsWeightedSum ==
    (Assessed /\ ValidSample(weather_data)) =>
        /\ "factors" \in DOMAIN risk_assessment
        /\ risk_assessment.probability = CombinedRisk(risk_assessment.factors)

\* C4: for every valid sample each returned factor value lies in [0,1]
C4_FactorsInUnitInterval ==
    (Assessed /\ ValidSample(weather_data) /\ "factors" \in DOMAIN risk_assessment) =>
        \A f \in {"wind", "pressure", "thermal", "moisture"} :
            InUnitInterval(risk_assessment.factors[f])

\* C5: every call on a sample returns probability, tier, color and the four factors
C5_CompleteAssessment ==
    (Called /\ weather_data \in Samples /\ ValidSample(weather_data)) =>
        /\ DOMAIN risk_assessment = {"risk_level", "probability", "color", "factors"}
        /\ DOMAIN risk_assessment.factors = {"wind", "pressure", "thermal", "moisture"}

\* C6: the return after the tier loop is never taken
C6_FallbackUnreachable ==
    (Assessed /\ ValidSample(weather_data)) => ~ReturnedByFallback

SamplePair ==
    /\ DOMAIN prev_weather_data # {} /\ DOMAIN weather_data # {}
    /\ ObservationSample(prev_weather_data) /\ ObservationSample(weather_data)

\* C8: of two samples that differ only in wind speed, the one with the larger
\* wind speed never gets the smaller probability
C8_MonotoneInWind ==
    (/\ SamplePair
     /\ Press(prev_weather_data) = Press(weather_data)
     /\ Humid(prev_weather_data) = Humid(weather_data)
     /\ TempOf(prev_weather_data) = TempOf(weather_data)
     /\ Wind(prev_weather_data) <= Wind(weather_data))
        => FLe(prev_risk_assessment.probability, risk_assessment.probability)

\* the wind rose between the two calls and the probability with it
C8_Witness ==
    /\ SamplePair
    /\ Press(prev_weather_data) = Press(weather_data)
    /\ Humid(prev_weather_data) = Humid(weather_data)
    /\ TempOf(prev_weather_data) = TempOf(weather_data)
    /\ Wind(prev_weather_data) < Wind(weather_data)
    /\ FLt(prev_risk_assessment.probability, risk_assessment.probability)

\* C9: of two samples that differ only in pressure, the one with the larger
\* pressure never gets the larger probability; from 1013 mb up the pressure
\* factor is exactly 0 and the probability does not change
C9_MonotoneInPressure ==
    /\ (/\ SamplePair
        /\ Wind(prev_weather_data) = Wind(weather_data)
        /\ Humid(prev_weather_data) = Humid(weather_data)
        /\ TempOf(prev_weather_data) = TempOf(weather_data)
        /\ Press(prev_weather_data) <= Press(weather_data))
           => /\ FLe(risk_assessment.probability, prev_risk_assessment.probability)
              /\ Press(prev_weather_data) >= 1013
                    => risk_assessment.probability = prev_risk_assessment.probability
    /\ (/\ Assessed
        /\ Press(weather_data) >= 1013
        /\ "factors" \in DOMAIN risk_assessment)
           => risk_assessment.factors.pressure = FZero

\* the pressure rose from 1013 to 1100 between the two calls
C9_Witness ==
    /\ SamplePair
    /\ Wind(prev_weather_data) = Wind(weather_data)
    /\ Humid(prev_weather_data) = Humid(weather_data)
    /\ TempOf(prev_weather_data) = TempOf(weather_data)
    /\ Press(prev_weather_data) = 1013 /\ Press(weather_data) = 1100
    /\ "factors" \in DOMAIN risk_assessment
    /\ risk_assessment.factors.pressure = FZero
    /\ FLt(FZero, risk_assessment.probability)

\* the sample with every absent reading set to its documented default
WithDefaults(d) ==
    [weatherapi |-> [current |->
        [wind_kph    |-> Get(CurrentOf(d), "wind_kph", 0),
         pressure_mb |-> Get(CurrentOf(d), "pressure_mb", 1013),
         humidity    |-> Get(CurrentOf(d), "humidity", 50),
         temp_c      |-> Get(CurrentOf(d), "temp_c", 25)]]]

\* C10: a sample with readings absent is assessed as the sample with those
\* readings set to temperature 25, wind 0, pressure 1013, humidity 50
C10_DefaultsForMissing ==
    Assessed => risk_assessment = AssessMemo[WithDefaults(weather_data)].returned

\* only wind and temperature were supplied
C10_Witness ==
    /\ Assessed
    /\ weather_data \in Samples
    /\ DOMAIN CurrentOf(weather_data) = {"wind_kph", "temp_c"}
    /\ Wind(weather_data) = 150 /\ TempOf(weather_data) = 36

\* a call has been made and has ended
CallEnded == raised # "not called"

ReadingsAre(w, p, h, t) ==
    /\ Assessed
    /\ Wind(weather_data) = w /\ Press(weather_data) = p
    /\ Humid(weather_data) = h /\ TempOf(weather_data) = t

\* C12: wind 0, pressure 1013, humidity 50, temperature 25 gives
\* probability 0.10, tier Low, color #2ecc71
C12_AllDefaultsSample ==
    ReadingsAre(0, 1013, 50, 25) =>
        /\ risk_assessment.probability = FTenths(1)
        /\ risk_assessment.risk_level = "Low"
        /\ risk_assessment.color = "#2ecc71"

\* the four readings were supplied, with the values of the defaults
C12_Witness ==
    /\ ReadingsAre(0, 1013, 50, 25)
    /\ DOMAIN CurrentOf(weather_data) = Fields
    /\ risk_assessment.probability = FTenths(1)

\* C13: from 120 kph up the wind factor is 1.0; wind 150, pressure 1013,
\* humidity 50, temperature 25 gives probability 0.40, on the lower bound
\* of [0.4,0.6): tier High, color #e74c3c
C13_WindClampedSample ==
    /\ (Assessed /\ Wind(weather_data) >= 120 /\ "factors" \in DOMAIN risk_assessment)
          => risk_assessment.factors.wind = F1_0
    /\ ReadingsAre(150, 1013, 50, 25) =>
          /\ risk_assessment.probability = F0_4
          /\ risk_assessment.risk_level = "High"
          /\ risk_assessment.color = "#e74c3c"

\* the sample of the example, assessed with the wind factor at 1.0
C13_Witness ==
    /\ ReadingsAre(150, 1013, 50, 25)
    /\ risk_assessment.factors.wind = F1_0
    /\ risk_assessment.risk_level = "High"

C19_OutOfBinsIsFallback ==
    (Assessed /\ raised = "none"
       /\ (FLt(combined_risk, FZero) \/ FLe(F1_0, combined_risk)))
        => risk_assessment =
              [risk_level |-> "Extreme", probability |-> F1_0, color |-> "#2c3e50"]

\* a negative wind speed made the combined risk negative
C19_Witness ==
    /\ Assessed /\ raised = "none"
    /\ Wind(weather_data) < 0
    /\ FLt(combined_risk, FZero)
    /\ risk_assessment =
          [risk_level |-> "Extreme", probability |-> F1_0, color |-> "#2c3e50"]

(***************************************************************************)
(* Properties of the script.                                               *)
(***************************************************************************)
\* C17: the request counter goes up by exactly one per request: with n
\* runs of the session ended, request_count is n; it never falls or resets
C17_RequestCounter ==
    IF runs = 0
    THEN "request_count" \notin DOMAIN session_state
    ELSE session_state.request_count = runs

\* the second run of the session has ended
C17_Witness ==
    /\ pc = "idle"
    /\ runs = 2
    /\ session_state.request_count = 2

\* WeatherAPI was asked and failed: an exception, a status other than 200,
\* or a body that is no JSON
WeatherFailed ==
    \/ provider.exc \in ProviderExceptions
    \/ /\ provider.exc = "none"
       /\ (provider.status # 200 \/ ~provider.json_ok)

\* the text-generation provider was asked and failed, or its reply has no
\* candidates or no parts
GeminiFailedOrEmpty ==
    \/ gemini.exc \in ProviderExceptions
    \/ /\ gemini.exc = "none"
       /\ \/ gemini.status >= 400
          \/ ~gemini.json_ok
          \/ gemini.candidates = <<>>
          \/ Get(Get(gemini.candidates[1], "content", EmptyDict), "parts", <<>>) = <<>>

\* C18: a failure of WeatherAPI leaves the fetched data without a
\* 'weatherapi' entry, a failure or an empty reply of the text-generation
\* provider leaves the analysis None, and no exception of a provider
\* leaves fetch_multi_source_data or _query_gemini
C18_ProviderFailuresCaught ==
    /\ escaped \notin ProviderExceptions
    /\ WeatherFailed => "weatherapi" \notin DOMAIN weather_data
    /\ GeminiFailedOrEmpty => analysis = PyNone

\* the request to WeatherAPI timed out: a warning on the page, no data
C18_Witness ==
    /\ provider.exc = "Timeout"
    /\ weather_data = EmptyDict
    /\ "WeatherAPI error" \in shown
    /\ escaped = "none"

\* C20: with weather_data non-empty, risk_assessment has 'risk_level' and
\* 'probability' and ensemble_forecast is not None, so no subscript read
\* raises; with weather_data empty no such read is made
C20_GuardedReads ==
    /\ escaped # "KeyError"
    /\ DOMAIN weather_data # {} =>
          /\ {"risk_level", "probability"} \subseteq DOMAIN risk_assessment
          /\ ensemble_forecast # PyNone
    /\ DOMAIN weather_data = {} => reads = {}

\* every read of the three tabs was made, on an assessment returned
\* without 'factors'
C20_Witness ==
    /\ DOMAIN weather_data # {}
    /\ reads = Tab1Reads \cup AlertReads(alert) \cup Tab2Reads \cup Tab4Reads
    /\ DOMAIN risk_assessment = {"risk_level", "probability", "color"}
    /\ escaped = "none"

\* tab1 drew its page for the assessment now in risk_assessment
AlertDecided ==
    /\ DOMAIN weather_data # {}
    /\ escaped = "none"
    /\ "probability" \in DOMAIN risk_assessment

\* C21: the critical alert is shown iff probability > 0.7, the warning
\* alert iff 0.4 < probability <= 0.7, no alert otherwise; the two are
\* never shown together, and no alert is shown without an assessment
C21_AlertThresholds ==
    /\ AlertDecided =>
          /\ "critical" \in alert <=> FLt(F0_7, risk_assessment.probability)
          /\ "warning" \in alert <=>
                 /\ FLt(F0_4, risk_assessment.probability)
                 /\ FLe(risk_assessment.probability, F0_7)
          /\ alert = {} <=> FLe(risk_assessment.probability, F0_4)
    /\ ~ AlertDecided => alert = {}
    /\ alert \in { {}, {"critical"}, {"warning"} }

\* an assessment with probability exactly 0.4, tier High, drawn without alert
C21_Witness ==
    /\ AlertDecided
    /\ risk_assessment.probability = F0_4
    /\ risk_assessment.risk_level = "High"
    /\ alert = {}
    /\ <<350, "probability">> \in reads

\* an assessment with probability exactly 0.7 drawn with the warning alert
C21_WitnessWarningAtBound ==
    /\ AlertDecided
    /\ risk_assessment.probability = F0_7
    /\ alert = {"warning"}

\* an assessment above 0.7 that carries factors, drawn with the critical alert
C21_WitnessCritical ==
    /\ AlertDecided
    /\ "factors" \in DOMAIN risk_assessment
    /\ alert = {"critical"}

\* tab5 of the run has been executed, or skipped by an escaped exception
Tab5Passed == pc \in {"session", "idle"}

\* the Gemini key is set, the button was pressed and there is weather data
RequestDue ==
    /\ widgets.gemini_api_key # ""
    /\ widgets.button
    /\ DOMAIN weather_data # {}

\* C22: a run sends a request to the text-generation provider only with a
\* non-empty Gemini key, the button pressed and weather_data non-empty; it
\* then sends exactly one, carrying the custom query when that is
\* non-empty and the generated weather context otherwise
C22_OneRequest ==
    /\ ~ Tab5Passed => sent = <<>>
    /\ (Tab5Passed /\ ~ RequestDue) => sent = <<>>
    /\ (Tab5Passed /\ RequestDue) =>
          /\ Len(sent) = 1
          /\ widgets.custom_query # "" => sent[1] = Str(widgets.custom_query)
          /\ widgets.custom_query = "" =>
                 sent[1] = WeatherContext(weather_data, risk_assessment)

\* one request sent with the generated context of a fetched observation
C22_Witness ==
    /\ pc = "session"
    /\ RequestDue
    /\ widgets.custom_query = ""
    /\ Len(sent) = 1
    /\ "context" \in DOMAIN sent[1]
    /\ sent[1].context.risk_level = risk_assessment.risk_level
    /\ gemini # NoReply

\* one request sent with the custom query
C22_WitnessCustomQuery ==
    /\ pc = "session"
    /\ RequestDue
    /\ sent = << Str("question") >>

\* the button pressed with the key set and nothing fetched: no request
C22_WitnessNothingFetched ==
    /\ pc = "session"
    /\ widgets.gemini_api_key # ""
    /\ widgets.button
    /\ DOMAIN weather_data = {}
    /\ sent = <<>>

\* the run had a location and a WeatherAPI key
FetchAttempted == widgets.location # "" /\ widgets.weatherapi_key # ""

\* the provider answered the run's request with status 200
Answered200 ==
    /\ FetchAttempted
    /\ provider.exc = "none"
    /\ provider.status = 200

\* a run without location or key leaves the three globals as reset
ResetSeen ==
    ~ FetchAttempted =>
        /\ weather_data = EmptyDict
        /\ risk_assessment = EmptyDict
        /\ ensemble_forecast = EmptyDict

\* C23 as stated: the globals are reset at the start of every run, and
\* weather_data is non-empty iff the run had location and key and the
\* provider answered with status 200
C23_Stated ==
    /\ ResetSeen
    /\ DOMAIN weather_data # {} <=> Answered200

\* C23: the globals are reset at the start of every run, and weather_data
\* is non-empty iff the run had location and key and the provider answered
\* with status 200 and a body that parsed as JSON
C23_FreshWeatherState ==
    /\ ResetSeen
    /\ DOMAIN weather_data # {} <=> (Answered200 /\ provider.json_ok)

\* a second run without a fetch, after a run that had assessed an
\* observation: the three globals are empty again
C23_Witness ==
    /\ runs = 1
    /\ pc = "tab2"
    /\ ~ FetchAttempted
    /\ DOMAIN passed # {}
    /\ DOMAIN prev_risk_assessment = {}
    /\ weather_data = EmptyDict
    /\ risk_assessment = EmptyDict
    /\ ensemble_forecast = EmptyDict

\* status 200 with a body that is not JSON: the error is shown and
\* weather_data stays empty
C23_WitnessBadBody ==
    /\ Answered200
    /\ ~ provider.json_ok
    /\ weather_data = EmptyDict
    /\ "WeatherAPI error" \in shown

\* status 200 with a JSON body: weather_data holds it
C23_WitnessFetched ==
    /\ Answered200
    /\ provider.json_ok
    /\ weather_data = [weatherapi |-> provider.body]

(***************************************************************************)
(* Properties of concurrent calls.                                         *)
(***************************************************************************)
\* C16: under every interleaving of the callers on the shared predictor,
\* each caller gets the assessment an isolated call on its sample returns
C16_ConcurrentCallsIsolated ==
    \A c \in Callers :
        caller_pc[c] = "done" =>
            caller_result[c] = AssessMemo[caller_arg[c]].returned

\* caller 1 returned while caller 2, on another sample, was in mid-call
C16_Witness ==
    /\ caller_pc[1] = "done"
    /\ caller_pc[2] = "combine"
    /\ caller_arg[1] # caller_arg[2]
    /\ "factors" \in DOMAIN caller_result[1]
    /\ caller_result[1] = AssessMemo[caller_arg[1]].returned

====
